---- MODULE Spec2Model ----
(***************************************************************************)
(* Model of the aria2 daemon supervisor of trauso:                         *)
(*   src-tauri/src/aria2/api.rs  (Aria2Client: start_daemon, stop_daemon,  *)
(*                                is_running, call, bandwidth limits, Drop)*)
(*   src-tauri/src/lib.rs        (the tauri commands over the ARIA2_CLIENT *)
(*                                tokio mutex and the settings store)      *)
(* Callers are concurrent invocations of the tauri commands.  Every await  *)
(* point of a command is a step boundary; the operating system (daemon     *)
(* processes binding the RPC port, exiting, an externally started daemon)  *)
(* moves between the steps.                                                *)
(***************************************************************************)
EXTENDS Integers, FiniteSets, Sequences, TLC

\* ---------------------------------------------------------------- bounds
NumCallers == 2
MaxSpawns == 2
MaxLimit == 1

Callers == 1..NumCallers
Pids == 1..MaxSpawns
\* The <<overall, per-download>> pairs the callers pass: unlimited, and pairs
\* whose two limits differ.
LimitPairs == {<<0, 0>>} \cup {<<k, k + 1>> : k \in 1..MaxLimit}
NoChild == 0
NoCaller == 0

VARIABLES
    guard,          \* holder of the ARIA2_CLIENT tokio mutex, NoCaller when free
    aria2_process,  \* Aria2Client.aria2_process: NoChild or the tracked pid
    limits,         \* <<max_overall_download_limit_kb_per_sec, max_download_limit_kb_per_sec>>
    settings,       \* the two limit fields of the stored app_settings
    procs,          \* pid -> [st, args]: each process this component spawned, with the
                    \*        <<overall, per-download>> limits of its startup arguments
    external,       \* state of a daemon started outside this component
    dropped,        \* the Aria2Client was dropped
    pc,             \* caller -> position in its command
    was_running,    \* caller -> set_bandwidth_limit's local was_running
    lims,           \* caller -> the limit pair the command carries
    last,           \* what the latest step returned to a caller: [caller, cmd, result]
    rpc_response,   \* call taken alone: the response it is handed
    call_result,    \* call taken alone: what it returned, Pending before
    status,         \* get_download_info taken alone: what its get_status returned
    info,           \* get_download_info taken alone: what it returned, NoInfo before
    queues,         \* the daemon's downloads: the gids of its active, waiting and
                    \*        stopped queues, each in the queue's order
    pending,        \* get_all_downloads: the gids of the fetched queue still to translate
    all_downloads   \* get_all_downloads: its vector, kept as it was returned

vars == <<guard, aria2_process, limits, settings, procs, external, dropped,
          pc, was_running, lims, last, rpc_response, call_result, status, info,
          queues, pending, all_downloads>>

\* The state of the supervisor and of its callers.
supervisor == <<guard, aria2_process, limits, settings, procs, external, dropped,
                pc, was_running, lims, last>>

\* The inputs and outputs of the operations that are taken alone.
call_data == <<rpc_response, call_result>>
info_data == <<status, info>>
list_data == <<queues, pending, all_downloads>>
data == <<call_data, info_data, list_data>>
supervisor_but_last == <<guard, aria2_process, limits, settings, procs, external,
                        dropped, pc, was_running, lims>>

client == <<aria2_process, limits>>
os == <<procs, external>>
locals == <<was_running, lims>>

\* ------------------------------------------------------- the RPC transport
\* A process answers on the RPC port while it listens, also while it is
\* completing a shutdown it was asked for.
Answers(st) == st \in {"listening", "closing"}

Reachable(pr, ext) == Answers(ext) \/ \E p \in Pids : Answers(pr[p].st)

\* The response envelope the port gives to a request.
Response(pr, ext) ==
    IF Reachable(pr, ext)
    THEN [sent |-> TRUE, parsed |-> TRUE, has_result |-> TRUE, has_error |-> FALSE]
    ELSE [sent |-> FALSE, parsed |-> FALSE, has_result |-> FALSE, has_error |-> FALSE]

call_result_first(resp) ==
    IF ~resp.sent THEN "RequestFailed"
    ELSE IF ~resp.parsed THEN "ParseFailed"
    ELSE IF resp.has_result THEN "Ok"
    ELSE IF resp.has_error THEN "Aria2Error"
    ELSE "EmptyResponse"

\* Which way call ends: the send fails, the body does not deserialize, the
\* envelope has an error, it has a result, it has neither.
call(resp) ==
    IF ~resp.sent THEN "RequestFailed"
    ELSE IF ~resp.parsed THEN "ParseFailed"
    ELSE IF resp.has_error THEN "Aria2Error"
    ELSE IF resp.has_result THEN "Ok"
    ELSE "EmptyResponse"

get_version(pr, ext) == call(Response(pr, ext))

shutdown(pr, ext) == call(Response(pr, ext))

is_running_by_handle(pr, ext, child) == child /= NoChild

\* self.get_version().await.is_ok()
is_running(pr, ext, child) == get_version(pr, ext) = "Ok"

\* The daemon that answered a shutdown request completes it and exits later.
AfterShutdown(st) == IF Answers(st) THEN "closing" ELSE st

\* ------------------------------------------------------------ OS processes
NoProc == [st |-> "none", args |-> <<0, 0>>]

DeadProc == [st |-> "dead", args |-> <<0, 0>>]

Alive(pr, p) == pr[p].st \in {"starting", "listening", "closing"}

\* Pids are handed out in order; the next spawn gets the first unused one.
NextPid(pr) == 1 + Cardinality({p \in Pids : pr[p].st /= "none"})

\* cmd.spawn() with the two limit arguments formatted from the current limits.
spawn(pr, lim) == [pr EXCEPT ![NextPid(pr)] = [st |-> "starting", args |-> lim]]

\* ------------------------------------------------------------- Aria2Client
new == [aria2_process |-> NoChild, limits |-> <<0, 0>>]

client_set_bandwidth_limit(o, p) == <<o, p>>

client_get_bandwidth_limit(l) == <<l[1], l[2]>>

\* child.kill(); child.wait(): the process is gone afterwards, whatever kill said.
kill_child(pr, child) ==
    IF child = NoChild THEN pr ELSE [pr EXCEPT ![child] = DeadProc]

stop_daemon_propagates(shutdown_res) == shutdown_res

\* let _ = self.shutdown().await; Ok(())
stop_daemon_result(shutdown_res) == "Ok"

start_daemon_never_early(running) == FALSE

\* if self.is_running().await { return Ok(()) }
start_daemon_returns_early(running) == running

child_dropped_on_timeout(child) == NoChild

\* Err("aria2c failed to start within timeout"): the child stays in aria2_process.
child_after_timeout(child) == child

\* ---------------------------------------------------------- settings store
\* The store has no "app_settings" key until the first save.
NoSettings == <<>>

AppSettings_default == <<0, 0>>

get_settings(store) == IF store = NoSettings THEN AppSettings_default ELSE store

save_settings(store, s) == s

restart_always(was) == TRUE

\* if was_running { client.start_daemon().await?; }
restart_after_update(was) == was

\* --------------------------------------------------- get_download_info
\* Strings are sequences of characters; an Option is <<>> (None) or <<x>>.
None == <<>>

Some(x) == <<x>>

\* All strings of at most n characters of chars.
Strs(chars, n) == UNION {[1..k -> chars] : k \in 0..n}

\* The u64 of the model has U64Bits bits.
U64Bits == 2
U64_MAX == 2 ^ U64Bits - 1

Digits == {"0", "1", "2", "3", "4", "5", "6", "7", "8", "9"}

to_digit(ch) ==
    CASE ch = "0" -> 0 [] ch = "1" -> 1 [] ch = "2" -> 2 [] ch = "3" -> 3
      [] ch = "4" -> 4 [] ch = "5" -> 5 [] ch = "6" -> 6 [] ch = "7" -> 7
      [] ch = "8" -> 8 [] ch = "9" -> 9

RECURSIVE parse_digits_wrapping(_, _)
parse_digits_wrapping(s, acc) ==
    IF s = <<>> THEN Some(acc)
    ELSE IF Head(s) \notin Digits THEN None
    ELSE parse_digits_wrapping(Tail(s), (acc * 10 + to_digit(Head(s))) % (U64_MAX + 1))

\* The digit loop of u64::from_str: an invalid digit and an overflow are errors.
RECURSIVE parse_digits(_, _)
parse_digits(s, acc) ==
    IF s = <<>> THEN Some(acc)
    ELSE IF Head(s) \notin Digits THEN None
    ELSE IF acc * 10 + to_digit(Head(s)) > U64_MAX THEN None
    ELSE parse_digits(Tail(s), acc * 10 + to_digit(Head(s)))

\* s.parse::<u64>().ok(): the empty string and a lone sign are errors, one
\* leading "+" is accepted, "-" is no digit.
parse(s) ==
    IF s = <<>> \/ s = <<"+">> \/ s = <<"-">> THEN None
    ELSE parse_digits(IF Head(s) = "+" THEN Tail(s) ELSE s, 0)

\* field.as_ref().and_then(|s| s.parse().ok()).unwrap_or(0)
counter(field) ==
    IF field = None THEN 0
    ELSE IF parse(field[1]) = None THEN 0
    ELSE parse(field[1])[1]

progress_unguarded(downloaded, total_size) == <<downloaded * 100, total_size>>

\* (downloaded as f64 / total_size as f64) * 100.0, or 0.0: the value as the
\* fraction <<numerator, denominator>>.
progress(downloaded, total_size) ==
    IF total_size > 0 THEN <<downloaded * 100, total_size>> ELSE <<0, 1>>

\* The "/"-separated segments of a path, the empty ones included.
RECURSIVE split(_, _)
split(path, seg) ==
    IF path = <<>> THEN <<seg>>
    ELSE IF Head(path) = "/" THEN <<seg>> \o split(Tail(path), <<>>)
    ELSE split(Tail(path), Append(seg, Head(path)))

\* Path::components on a Unix path: the segments that are components.  Empty
\* segments are none, and "." is one only as the first segment of a relative path.
components(path) ==
    LET segs == split(path, <<>>) IN
    SelectSeq([i \in 1..Len(segs) |-> [seg |-> segs[i], first |-> i = 1]],
              LAMBDA c : c.seg /= <<>> /\ (c.seg = <<".">> => c.first))

file_name_of_any(path) ==
    IF components(path) = <<>> THEN None
    ELSE Some(components(path)[Len(components(path))].seg)

\* Path::file_name: the last component when it is a normal one.
file_name(path) ==
    LET comps == components(path) IN
    IF comps = <<>> THEN None
    ELSE IF comps[Len(comps)].seg \in {<<".">>, <<".", ".">>} THEN None
    ELSE Some(comps[Len(comps)].seg)

unknown == <<"u", "n", "k", "n", "o", "w", "n">>

\* status.files.and_then(|files| files.first().cloned()).map(..).unwrap_or("unknown")
filename(files) ==
    IF files = None \/ files[1] = <<>> THEN unknown
    ELSE IF file_name(files[1][1].path) = None THEN files[1][1].path
    ELSE file_name(files[1][1].path)[1]

\* DownloadStatus::from(status.status.as_str())
DownloadStatus_from(st) ==
    IF st \in {"active", "waiting", "paused", "error", "complete", "removed"}
    THEN st ELSE "unknown"

\* An Aria2Status with nothing in it.
NoRecord ==
    [gid |-> "none", total_length |-> None, completed_length |-> None,
     download_speed |-> None, status |-> "none", error_message |-> None,
     files |-> None]

\* get_status has not returned yet.
NoStatus == [ok |-> FALSE, error |-> <<"pending">>, record |-> NoRecord]

\* Nothing translated yet.
NoInfo ==
    [state |-> "pending", error |-> <<>>, gid |-> "none", filename |-> <<>>,
     total_size |-> 0, downloaded |-> 0, speed |-> 0, progress |-> <<0, 1>>,
     status |-> "none", error_message |-> None]

\* get_download_info from the await of get_status on: st is what get_status
\* returned, [ok, error, record].
get_download_info(st) ==
    IF ~st.ok
    THEN [NoInfo EXCEPT !.state = "Err", !.error = st.error]
    ELSE LET total_size == counter(st.record.total_length)
             downloaded == counter(st.record.completed_length)
             speed == counter(st.record.download_speed)
         IN [state |-> "Ok", error |-> <<>>,
             gid |-> st.record.gid,
             filename |-> filename(st.record.files),
             total_size |-> total_size,
             downloaded |-> downloaded,
             speed |-> speed,
             progress |-> progress(downloaded, total_size),
             status |-> DownloadStatus_from(st.record.status),
             error_message |-> st.record.error_message]

\* ------------------------------------------------------- call taken alone
\* What call returns with its outcome: the result of the envelope, or the
\* message format!("aria2 error: {} (code: {})", error.message, error.code),
\* or the fixed message of the other failures.
call_value(resp) ==
    CASE call(resp) = "Ok" -> <<resp.result>>
      [] call(resp) = "Aria2Error" -> <<"aria2 error", resp.error.message, resp.error.code>>
      [] call(resp) = "EmptyResponse" -> <<"Empty response from aria2">>
      [] call(resp) = "ParseFailed" -> <<"Failed to parse RPC response">>
      [] OTHER -> <<"RPC request failed">>

\* The body of a response as it is on the wire: each of the two members of
\* the envelope is absent, null, or has a value.
Members == {"absent", "null", "value"}

\* The results a daemon gives: a version, the "OK" of shutdown, gids.
Results == {"1.37.0", "OK", "2089b05ecca3d829", "0000000000000001"}

\* aria2's error objects.
Errors == [code : {1, 2, 24}, message : {"Unauthorized", "No such download", "Timeout"}]

NoMember == [code |-> 0, message |-> "none"]

\* The responses handed to call: the send failed; a body arrived that is no
\* envelope; an envelope arrived.
Responses ==
    {[sent |-> FALSE, well_formed |-> FALSE, result_member |-> "absent",
      error_member |-> "absent", result |-> "none", error |-> NoMember],
     [sent |-> TRUE, well_formed |-> FALSE, result_member |-> "absent",
      error_member |-> "absent", result |-> "none", error |-> NoMember]}
    \cup {r \in [sent : {TRUE}, well_formed : {TRUE}, result_member : Members,
                 error_member : Members, result : Results \cup {"none"},
                 error : Errors \cup {NoMember}] :
            /\ r.result = "none" <=> r.result_member /= "value"
            /\ r.error = NoMember <=> r.error_member /= "value"}

\* response.json::<Aria2RpcResponse<T>>(): both members are Options, and an
\* Option is None for an absent member and for null.
json(body) ==
    [sent |-> body.sent,
     parsed |-> body.sent /\ body.well_formed,
     has_result |-> body.result_member = "value",
     has_error |-> body.error_member = "value",
     result |-> body.result,
     error |-> body.error]

\* No response was handed to call yet / call has not returned yet.
NoResponse ==
    [sent |-> FALSE, well_formed |-> FALSE, result_member |-> "absent",
     error_member |-> "absent", result |-> "pending", error |-> NoMember]

Pending == [ok |-> FALSE, value |-> <<"pending">>]

\* ------------------------------------------------- the daemon's downloads
\* tellWaiting and tellStopped are asked for offset 0 and this many entries.
tell_num == 100

InQueue(qs, gid) ==
    CASE \E i \in 1..Len(qs.active) : qs.active[i] = gid -> "active"
      [] \E i \in 1..Len(qs.waiting) : qs.waiting[i] = gid -> "waiting"
      [] \E i \in 1..Len(qs.stopped) : qs.stopped[i] = gid -> "stopped"
      [] OTHER -> "none"

\* The record the daemon keeps of a download: its status says which queue it is in.
DaemonRecord(qs, gid) ==
    [gid |-> gid, total_length |-> Some(<<"3">>), completed_length |-> Some(<<"1">>),
     download_speed |-> None,
     status |-> CASE InQueue(qs, gid) = "active" -> "active"
                  [] InQueue(qs, gid) = "waiting" -> "waiting"
                  [] OTHER -> "complete",
     error_message |-> None, files |-> None]

\* The body the port gives to a request whose result at a listening daemon is res.
Body(pr, ext, res) ==
    [sent |-> Reachable(pr, ext), well_formed |-> Reachable(pr, ext),
     result_member |-> IF Reachable(pr, ext) THEN "value" ELSE "absent",
     error_member |-> "absent", result |-> res, error |-> NoMember]

\* The body of the daemon's answer to tellStatus(gid).
TellStatusBody(pr, ext, qs, gid) ==
    IF Reachable(pr, ext) /\ InQueue(qs, gid) = "none"
    THEN [sent |-> TRUE, well_formed |-> TRUE, result_member |-> "absent",
          error_member |-> "value", result |-> NoRecord,
          error |-> [code |-> 1, message |-> "No such download"]]
    ELSE Body(pr, ext, DaemonRecord(qs, gid))

\* self.call("tellStatus", [gid]): [ok, error, record].
get_status(pr, ext, qs, gid) ==
    LET resp == json(TellStatusBody(pr, ext, qs, gid)) IN
    IF call(resp) = "Ok"
    THEN [ok |-> TRUE, error |-> <<>>, record |-> resp.result]
    ELSE [ok |-> FALSE, error |-> call_value(resp), record |-> NoRecord]

\* The first num entries of a queue from offset 0.
Page(q, num) == SubSeq(q, 1, IF Len(q) < num THEN Len(q) ELSE num)

\* tell_active, tell_waiting(0, 100), tell_stopped(0, 100): [ok, list], the
\* list being the gids of the statuses returned.
tell(pr, ext, q) ==
    LET resp == json(Body(pr, ext, q)) IN
    IF call(resp) = "Ok" THEN [ok |-> TRUE, list |-> resp.result]
    ELSE [ok |-> FALSE, list |-> <<>>]

tell_active(pr, ext, qs) == tell(pr, ext, qs.active)

tell_waiting(pr, ext, qs, offset, num) == tell(pr, ext, Page(qs.waiting, num))

tell_stopped(pr, ext, qs, offset, num) == tell(pr, ext, Page(qs.stopped, num))

\* ---------------------------------------------------------------- Init
\* No command returned in the latest step.
Nothing == [caller |-> NoCaller, cmd |-> "none", result |-> <<"none">>]

\* The client after construction, no command invoked.
InitClient ==
    /\ guard = NoCaller
    /\ aria2_process = new.aria2_process
    /\ limits = new.limits
    /\ settings = NoSettings
    /\ procs = [p \in Pids |-> NoProc]
    /\ dropped = FALSE
    /\ pc = [c \in Callers |-> "idle"]
    /\ was_running = [c \in Callers |-> FALSE]
    /\ lims = [c \in Callers |-> <<0, 0>>]
    /\ last = Nothing

\* The supervisor after construction, with no daemon on the machine.
InitSupervisor ==
    /\ InitClient
    /\ external = "none"

\* No operation is taken alone.
IdleCall ==
    /\ rpc_response = NoResponse
    /\ call_result = Pending

IdleInfo ==
    /\ status = NoStatus
    /\ info = NoInfo

\* A daemon without downloads, and no get_all_downloads under way.
NoQueues == [active |-> <<>>, waiting |-> <<>>, stopped |-> <<>>]

IdleList ==
    /\ pending = <<>>
    /\ all_downloads = <<>>

Init ==
    /\ InitSupervisor
    /\ IdleCall
    /\ IdleInfo
    /\ queues = NoQueues
    /\ IdleList

\* Command name returns r to its caller c; its locals are gone.
Return(c, name, r) ==
    /\ pc' = [pc EXCEPT ![c] = "idle"]
    /\ last' = [caller |-> c, cmd |-> name, result |-> r]
    /\ was_running' = [was_running EXCEPT ![c] = FALSE]
    /\ lims' = [lims EXCEPT ![c] = <<0, 0>>]

\* The step returns nothing to anyone.
NoReturn == last' = Nothing

\* The MutexGuard `client` goes out of scope.
Release == guard' = NoCaller

Invoke(c) ==
    /\ ~dropped
    /\ pc[c] = "idle"

\* ------------------------------------------------------------ start_daemon
released_before_poll(c) == NoCaller

\* The guard `client` of the command lives until start_daemon has returned.
held_across_poll(c) == c

\* start_daemon up to the spawn, run for command name by c holding the guard,
\* with limits lim: the reachability check, the path lookup, the spawn.
start_daemon(c, name, lim) ==
    IF start_daemon_returns_early(is_running(procs, external, aria2_process))
    THEN /\ Return(c, name, <<"Ok">>)
         /\ Release
         /\ UNCHANGED <<aria2_process, os>>
    ELSE \E outcome \in {"not_found", "spawn_failed", "spawned"} :
         CASE outcome = "not_found" ->
                /\ Return(c, name, <<"NotFound">>)
                /\ Release
                /\ UNCHANGED <<aria2_process, os>>
           [] outcome = "spawn_failed" ->
                /\ Return(c, name, <<"SpawnFailed">>)
                /\ Release
                /\ UNCHANGED <<aria2_process, os>>
           [] outcome = "spawned" ->
                /\ NextPid(procs) <= MaxSpawns
                /\ procs' = spawn(procs, lim)
                /\ aria2_process' = NextPid(procs)
                /\ pc' = [pc EXCEPT ![c] = IF name = "start_aria2" THEN "sd_poll" ELSE "sbl_poll"]
                /\ guard' = held_across_poll(c)
                /\ NoReturn
                /\ UNCHANGED <<external, locals>>

\* start_aria2: lock, then start_daemon.
StartAria2(c) ==
    /\ Invoke(c)
    /\ guard = NoCaller
    /\ start_daemon(c, "start_aria2", limits)
    /\ UNCHANGED <<limits, settings, dropped, data>>

\* The readiness poll: success as soon as a poll answers; the 5 s deadline may
\* pass after any poll that did not.
StartDaemonPoll(c) ==
    /\ pc[c] \in {"sd_poll", "sbl_poll"}
    /\ guard = c
    /\ LET name == IF pc[c] = "sd_poll" THEN "start_aria2" ELSE "set_bandwidth_limit" IN
       IF is_running(procs, external, aria2_process)
       THEN /\ Return(c, name, <<"Ok">>)
            /\ UNCHANGED aria2_process
       ELSE /\ Return(c, name, <<"StartupTimeout">>)
            /\ aria2_process' = child_after_timeout(aria2_process)
    /\ Release
    /\ UNCHANGED <<limits, settings, os, dropped, data>>

\* ------------------------------------------------------------- stop_daemon
\* stop_daemon, second half, run by c holding the guard: the best-effort
\* shutdown request, then Ok(()).  in_sbl: called from set_bandwidth_limit,
\* which goes on (stop_daemon().await?) when the result is Ok.
stop_daemon_shutdown(c, in_sbl) ==
    /\ procs' = [p \in Pids |-> [procs[p] EXCEPT !.st = AfterShutdown(@)]]
    /\ external' = AfterShutdown(external)
    /\ LET r == stop_daemon_result(shutdown(procs, external)) IN
       IF ~in_sbl
       THEN Return(c, "stop_aria2", <<r>>)
       ELSE IF r /= "Ok"
       THEN Return(c, "set_bandwidth_limit", <<r>>)
       ELSE /\ pc' = [pc EXCEPT ![c] = "sbl_update"]
            /\ NoReturn
            /\ UNCHANGED locals
    /\ Release

\* stop_daemon from its start, run by c as it gets the guard.  With a handle:
\* take it, kill and reap the child, then go on to the shutdown request.
\* With no handle nothing happens before the shutdown request.
stop_daemon(c, in_sbl) ==
    /\ guard = NoCaller
    /\ aria2_process' = NoChild
    /\ IF aria2_process /= NoChild
       THEN /\ procs' = kill_child(procs, aria2_process)
            /\ pc' = [pc EXCEPT ![c] = IF in_sbl THEN "sbl_stop_rpc" ELSE "stop_rpc"]
            /\ guard' = c
            /\ NoReturn
            /\ UNCHANGED <<external, locals>>
       ELSE stop_daemon_shutdown(c, in_sbl)
    /\ UNCHANGED <<limits, settings, dropped, data>>

StopAria2(c) ==
    /\ Invoke(c)
    /\ stop_daemon(c, FALSE)

StopDaemonShutdown(c) ==
    /\ pc[c] \in {"stop_rpc", "sbl_stop_rpc"}
    /\ guard = c
    /\ stop_daemon_shutdown(c, pc[c] = "sbl_stop_rpc")
    /\ UNCHANGED <<client, settings, dropped, data>>

\* ------------------------------------------------------- is_aria2_running
IsAria2Running(c) ==
    /\ Invoke(c)
    /\ guard = NoCaller
    /\ Return(c, "is_aria2_running",
              IF is_running(procs, external, aria2_process) THEN <<"true">> ELSE <<"false">>)
    /\ UNCHANGED <<guard, client, settings, os, dropped, data>>

\* ---------------------------------------------------- set_bandwidth_limit
\* let was_running = { lock; is_running }: the guard is dropped at the end of the block.
SblCheck(c, l) ==
    /\ Invoke(c)
    /\ guard = NoCaller
    /\ lims' = [lims EXCEPT ![c] = l]
    /\ was_running' = [was_running EXCEPT ![c] = is_running(procs, external, aria2_process)]
    /\ pc' = [pc EXCEPT ![c] = IF was_running'[c] THEN "sbl_stop" ELSE "sbl_update"]
    /\ NoReturn
    /\ UNCHANGED <<guard, client, settings, os, dropped, data>>

\* if was_running { lock; stop_daemon }: a second, separate acquisition.
SblStop(c) ==
    /\ pc[c] = "sbl_stop"
    /\ stop_daemon(c, TRUE)

\* The third acquisition: set the limits, store them, then restart or return.
SblUpdate(c) ==
    /\ pc[c] = "sbl_update"
    /\ guard = NoCaller
    /\ limits' = client_set_bandwidth_limit(lims[c][1], lims[c][2])
    /\ settings' = save_settings(settings, lims[c])
    /\ IF restart_after_update(was_running[c])
       THEN start_daemon(c, "set_bandwidth_limit", limits')
       ELSE /\ Return(c, "set_bandwidth_limit", <<"Ok">>)
            /\ UNCHANGED <<guard, aria2_process, os>>
    /\ UNCHANGED <<dropped, data>>

\* ---------------------------------------------------- get_bandwidth_limit
\* let settings = get_settings(&handle): read before the guard is taken.
GblRead(c) ==
    /\ Invoke(c)
    /\ lims' = [lims EXCEPT ![c] = get_settings(settings)]
    /\ pc' = [pc EXCEPT ![c] = "gbl_lock"]
    /\ NoReturn
    /\ UNCHANGED <<guard, client, settings, os, dropped, was_running, data>>

GblApply(c) ==
    /\ pc[c] = "gbl_lock"
    /\ guard = NoCaller
    /\ limits' = client_set_bandwidth_limit(lims[c][1], lims[c][2])
    /\ Return(c, "get_bandwidth_limit", client_get_bandwidth_limit(limits'))
    /\ UNCHANGED <<guard, aria2_process, settings, os, dropped, data>>

\* ------------------------------------------------------ save_app_settings
SaveAppSettings(c, l) ==
    /\ Invoke(c)
    /\ settings' = save_settings(settings, l)
    /\ Return(c, "save_app_settings", <<"Ok">>)
    /\ UNCHANGED <<guard, client, os, dropped, data>>

\* ------------------------------------------------------ get_download_status
\* lock, get_download_info(gid), return: the caller gets Ok(info) or the error.
GetDownloadStatus(c, gid) ==
    /\ Invoke(c)
    /\ guard = NoCaller
    /\ Return(c, "get_download_status",
              <<get_download_info(get_status(procs, external, queues, gid)).state>>)
    /\ UNCHANGED <<guard, client, settings, os, dropped, data>>

\* -------------------------------------------------------- get_all_downloads
GadPhases == {"gad_active", "gad_waiting", "gad_stopped"}

\* if let Ok(queue) = self.tell_..().await { for status in queue ... }: a fetch
\* that failed gives nothing to go through.
fetched(res) == IF res.ok THEN res.list ELSE <<>>

push_first(all, inf) == IF inf.state = "Ok" THEN <<inf>> \o all ELSE all

push_even_failed(all, inf) == Append(all, inf)

\* if let Ok(info) = self.get_download_info(&status.gid).await { all_downloads.push(info) }
push(all, inf) == IF inf.state = "Ok" THEN Append(all, inf) ELSE all

\* After the stopped queue is gone through, Ok(all_downloads); before, the
\* loop goes on in phase with rest still to translate.
gad_continue(c, phase, rest) ==
    IF phase = "gad_stopped" /\ rest = <<>>
    THEN /\ Return(c, "get_all_downloads", <<"Ok">>)
         /\ Release
    ELSE /\ pc' = [pc EXCEPT ![c] = phase]
         /\ guard' = c
         /\ NoReturn
         /\ UNCHANGED locals

\* lock, a fresh vector, tell_active.
GetAllDownloads(c) ==
    /\ Invoke(c)
    /\ guard = NoCaller
    /\ all_downloads' = <<>>
    /\ pending' = fetched(tell_active(procs, external, queues))
    /\ gad_continue(c, "gad_active", pending')
    /\ UNCHANGED <<client, settings, os, dropped, call_data, info_data, queues>>

\* One turn of a for loop: get_download_info of the next status of the queue.
GadItem(c) ==
    /\ pc[c] \in GadPhases
    /\ guard = c
    /\ pending /= <<>>
    /\ all_downloads' =
         push(all_downloads,
              get_download_info(get_status(procs, external, queues, Head(pending))))
    /\ pending' = Tail(pending)
    /\ gad_continue(c, pc[c], pending')
    /\ UNCHANGED <<client, settings, os, dropped, call_data, info_data, queues>>

\* The active statuses are gone through: tell_waiting(0, 100).
GadTellWaiting(c) ==
    /\ pc[c] = "gad_active"
    /\ guard = c
    /\ pending = <<>>
    /\ pending' = fetched(tell_waiting(procs, external, queues, 0, tell_num))
    /\ gad_continue(c, "gad_waiting", pending')
    /\ UNCHANGED <<client, settings, os, dropped, call_data, info_data, queues,
                   all_downloads>>

\* The waiting statuses are gone through: tell_stopped(0, 100).
GadTellStopped(c) ==
    /\ pc[c] = "gad_waiting"
    /\ guard = c
    /\ pending = <<>>
    /\ pending' = fetched(tell_stopped(procs, external, queues, 0, tell_num))
    /\ gad_continue(c, "gad_stopped", pending')
    /\ UNCHANGED <<client, settings, os, dropped, call_data, info_data, queues,
                   all_downloads>>

\* -------------------------------------------------- Drop for Aria2Client
Drop ==
    /\ ~dropped
    /\ guard = NoCaller
    /\ \A c \in Callers : pc[c] = "idle"
    /\ procs' = kill_child(procs, aria2_process)
    /\ aria2_process' = NoChild
    /\ dropped' = TRUE
    /\ NoReturn
    /\ UNCHANGED <<guard, limits, settings, external, pc, locals, data>>

\* ------------------------------------------------------- the environment
PortFree == ~Reachable(procs, external)

\* A spawned daemon binds the RPC port.
DaemonReady(p) ==
    /\ procs[p].st = "starting"
    /\ PortFree
    /\ procs' = [procs EXCEPT ![p].st = "listening"]
    /\ NoReturn
    /\ UNCHANGED <<guard, client, settings, external, dropped, pc, locals, data>>

\* A spawned daemon exits by itself: it could not bind, it crashed, or it
\* completed the shutdown it was asked for.
DaemonExit(p) ==
    /\ Alive(procs, p)
    /\ procs' = [procs EXCEPT ![p] = DeadProc]
    /\ NoReturn
    /\ UNCHANGED <<guard, client, settings, external, dropped, pc, locals, data>>

ExternalStart ==
    /\ external = "none"
    /\ PortFree
    /\ external' = "listening"
    /\ NoReturn
    /\ UNCHANGED <<guard, client, settings, procs, dropped, pc, locals, data>>

ExternalExit ==
    /\ Answers(external)
    /\ external' = "none"
    /\ NoReturn
    /\ UNCHANGED <<guard, client, settings, procs, dropped, pc, locals, data>>

CommandStep ==
    \/ \E c \in Callers : StartAria2(c)
    \/ \E c \in Callers : StartDaemonPoll(c)
    \/ \E c \in Callers : StopAria2(c)
    \/ \E c \in Callers : StopDaemonShutdown(c)
    \/ \E c \in Callers : IsAria2Running(c)
    \/ \E c \in Callers, l \in LimitPairs : SblCheck(c, l)
    \/ \E c \in Callers : SblStop(c)
    \/ \E c \in Callers : SblUpdate(c)
    \/ \E c \in Callers : GblRead(c)
    \/ \E c \in Callers : GblApply(c)
    \/ \E c \in Callers, l \in LimitPairs : SaveAppSettings(c, l)
    \/ Drop

DaemonStep ==
    \/ \E p \in Pids : DaemonReady(p)
    \/ \E p \in Pids : DaemonExit(p)

Next ==
    \/ CommandStep
    \/ DaemonStep
    \/ ExternalStart
    \/ ExternalExit

Spec == Init /\ [][Next]_vars

\* The component alone on the machine: no daemon is ever started outside it.
NextOwn ==
    \/ CommandStep
    \/ DaemonStep

SpecOwn == Init /\ [][NextOwn]_vars

\* ------------------------------------------------------- call taken alone
InitCall ==
    /\ InitSupervisor
    /\ IdleInfo
    /\ queues = NoQueues
    /\ IdleList
    /\ rpc_response \in Responses
    /\ call_result = Pending

\* call runs on the response it was handed.
Call ==
    /\ call_result = Pending
    /\ call_result' = [ok |-> call(json(rpc_response)) = "Ok",
                       value |-> call_value(json(rpc_response))]
    /\ UNCHANGED <<supervisor, rpc_response, info_data, list_data>>

\* The next request gets its response.
NextResponse ==
    /\ call_result /= Pending
    /\ rpc_response' \in Responses
    /\ call_result' = Pending
    /\ UNCHANGED <<supervisor, info_data, list_data>>

NextCall == Call \/ NextResponse

SpecCall == InitCall /\ [][NextCall]_vars

\* ------------------------------------------ get_download_info taken alone
MaxStrLen == 2
MaxPathLen == 3
MaxFiles == 2

\* The characters of the counters the daemon reports: digits, and a sign, which
\* is no digit anywhere but in front.
CounterChars == {"0", "1", "3", "+"}

CounterFields == {None} \cup {Some(str) : str \in Strs(CounterChars, MaxStrLen)}

PathChars == {"a", "/", "."}

Paths == Strs(PathChars, MaxPathLen)

\* The file lists: any path first, short paths after it.
FileLists ==
    {<<>>} \cup
    UNION {{<<[path |-> p]>> \o rest :
              p \in Paths,
              rest \in [1..k -> {[path |-> q] : q \in Strs(PathChars, 1)}]} :
           k \in 0..(MaxFiles - 1)}

Gids == {"2089b05ecca3d829", "0000000000000001", "0000000000000002", "0000000000000003"}

\* The status records: every combination of the three counters, and every
\* file list with every status string.
StatusRecords ==
    [gid : {"2089b05ecca3d829"}, total_length : CounterFields,
     completed_length : CounterFields, download_speed : CounterFields,
     status : {"active"}, error_message : {None}, files : {None}]
    \cup
    [gid : Gids, total_length : {Some(<<"3">>)},
     completed_length : {Some(<<"1">>)}, download_speed : {None},
     status : {"active", "complete", "bogus"},
     error_message : {None, Some(<<"x">>)},
     files : {None} \cup {Some(l) : l \in FileLists}]

\* What get_status returns: the error of its call, or the record.
StatusResults ==
    {[ok |-> FALSE, error |-> call_value(json(r)), record |-> NoRecord] :
       r \in {x \in Responses : call(json(x)) /= "Ok"}}
    \cup {[ok |-> TRUE, error |-> <<>>, record |-> r] : r \in StatusRecords}

InitInfo ==
    /\ InitSupervisor
    /\ IdleCall
    /\ queues = NoQueues
    /\ IdleList
    /\ status \in StatusResults
    /\ info = NoInfo

\* get_download_info runs on what its get_status returned.
GetDownloadInfo ==
    /\ info = NoInfo
    /\ info' = get_download_info(status)
    /\ UNCHANGED <<supervisor, call_data, status, list_data>>

NextInfo == GetDownloadInfo

SpecInfo == InitInfo /\ [][NextInfo]_vars

\* ------------------------------------------- the commands that only read
MaxQueue == 2

\* The queues of at most MaxQueue downloads, no download twice in one.
QueueSeqs ==
    {q \in UNION {[1..k -> Gids] : k \in 0..MaxQueue} :
       \A i, j \in 1..Len(q) : q[i] = q[j] => i = j}

Range(q) == {q[i] : i \in 1..Len(q)}

\* A download is in one queue at a time.
QueueStates ==
    {qs \in [active : QueueSeqs, waiting : QueueSeqs, stopped : QueueSeqs] :
       /\ Range(qs.active) \cap Range(qs.waiting) = {}
       /\ Range(qs.active) \cap Range(qs.stopped) = {}
       /\ Range(qs.waiting) \cap Range(qs.stopped) = {}}

\* A daemon started elsewhere listens, with downloads in its queues.
InitList ==
    /\ InitClient
    /\ external = "listening"
    /\ IdleCall
    /\ IdleInfo
    /\ queues \in QueueStates
    /\ IdleList

ReadStep ==
    \/ \E c \in Callers : GetAllDownloads(c)
    \/ \E c \in Callers : GadItem(c)
    \/ \E c \in Callers : GadTellWaiting(c)
    \/ \E c \in Callers : GadTellStopped(c)
    \/ \E c \in Callers, gid \in Gids : GetDownloadStatus(c, gid)
    \/ \E c \in Callers : IsAria2Running(c)

\* The daemon stays up and its queues stay as they are.
SpecList == InitList /\ [][ReadStep]_vars

NextListFaults ==
    \/ ReadStep
    \/ ExternalStart
    \/ ExternalExit

\* The daemon goes down and comes back between the steps of the commands.
SpecListFaults == InitList /\ [][NextListFaults]_vars

\* Queue q without download gid.
Without(q, gid) == SelectSeq(q, LAMBDA g : g /= gid)

\* The daemon starts a waiting download: it leaves the waiting queue and
\* joins the active ones.
DownloadStarts(gid) ==
    /\ InQueue(queues, gid) = "waiting"
    /\ queues' = [queues EXCEPT !.waiting = Without(@, gid),
                                !.active = Append(@, gid)]
    /\ NoReturn
    /\ UNCHANGED <<supervisor_but_last, call_data, info_data, pending, all_downloads>>

\* An active download completes: it leaves the active queue and joins the
\* stopped ones, the newest last.
DownloadCompletes(gid) ==
    /\ InQueue(queues, gid) = "active"
    /\ queues' = [queues EXCEPT !.active = Without(@, gid),
                                !.stopped = Append(@, gid)]
    /\ NoReturn
    /\ UNCHANGED <<supervisor_but_last, call_data, info_data, pending, all_downloads>>

NextListMoves ==
    \/ \E c \in Callers : GetAllDownloads(c)
    \/ \E c \in Callers : GadItem(c)
    \/ \E c \in Callers : GadTellWaiting(c)
    \/ \E c \in Callers : GadTellStopped(c)
    \/ \E gid \in Gids : DownloadStarts(gid)
    \/ \E gid \in Gids : DownloadCompletes(gid)

\* The daemon stays up and works on its downloads between the steps of the
\* commands.
SpecListMoves == InitList /\ [][NextListMoves]_vars

\* ------------------------------------------------------------- properties
Ok == <<"Ok">>

\* In this step command name returns r to c.
Returns(c, name, r) == last' = [caller |-> c, cmd |-> name, result |-> r]

\* The latest step returned r from command name to c.
Returned(c, name, r) == last = [caller |-> c, cmd |-> name, result |-> r]

\* c is inside set_bandwidth_limit: past its running-check, not yet returned.
InSbl(c) == pc[c] \in {"sbl_stop", "sbl_stop_rpc", "sbl_update", "sbl_poll"}

\* A step of a command of d that runs under the ARIA2_CLIENT guard.
GuardedStep(d) ==
    \/ StartAria2(d)
    \/ StartDaemonPoll(d)
    \/ StopAria2(d)
    \/ StopDaemonShutdown(d)
    \/ IsAria2Running(d)
    \/ \E l \in LimitPairs : SblCheck(d, l)
    \/ SblStop(d)
    \/ SblUpdate(d)
    \/ GblApply(d)

\* C1: from the running-check of a set_bandwidth_limit until its return, no
\* other caller's command executes a step under the guard.
C1_SblHoldsGuardThroughout ==
    [][\A c \in Callers : InSbl(c) =>
         \A d \in Callers \ {c} : ~GuardedStep(d)]_vars

\* c's set_bandwidth_limit returns success in this step.
SblReturnsOk(c) == InSbl(c) /\ Returns(c, "set_bandwidth_limit", Ok)

\* Every live process this component spawned is the tracked one.
NoOrphan == \A p \in Pids : Alive(procs, p) => aria2_process = p

\* C2: a set_bandwidth_limit(o, p) that found the component's own daemon
\* running and returns success leaves the tracked daemon running with o and p
\* in its startup arguments, and no daemon answering with other limits than
\* the client holds (stated for the returns at which the component has no
\* untracked process left over).
C2_RestartedWithNewLimits ==
    [][\A c \in Callers : SblReturnsOk(c) /\ was_running[c] /\ NoOrphan =>
         /\ aria2_process' /= NoChild
         /\ Answers(procs'[aria2_process'].st)
         /\ procs'[aria2_process'].args = lims[c]
         /\ \A p \in Pids : Answers(procs'[p].st) => procs'[p].args = limits']_vars

\* C3: once a set_bandwidth_limit has stopped the daemon it found running and
\* until it returns, no is_aria2_running call of another caller returns false
\* (it blocks, or it returns true).
C3_NoFalseNegativeDuringRestart ==
    [][\A d \in Callers :
         IsAria2Running(d)
         /\ (\E c \in Callers \ {d} :
               was_running[c] /\ pc[c] \in {"sbl_stop_rpc", "sbl_update", "sbl_poll"})
           => Returns(d, "is_aria2_running", <<"true">>)]_vars

\* C4: every live process this component spawned is the one held in
\* aria2_process.
C4_OnlyTrackedProcessAlive == NoOrphan

\* C5: a start_daemon that finds the daemon reachable returns Ok, spawns
\* nothing and leaves the handle and the limits alone; no process is ever
\* spawned while the daemon is reachable.
C5_StartIdempotentWhenReachable ==
    [][/\ \A c \in Callers :
            StartAria2(c) /\ Reachable(procs, external) =>
              /\ Returns(c, "start_aria2", Ok)
              /\ procs' = procs /\ aria2_process' = aria2_process /\ limits' = limits
       /\ \A c \in Callers :
            SblUpdate(c) /\ was_running[c] /\ Reachable(procs, external) =>
              /\ Returns(c, "set_bandwidth_limit", Ok)
              /\ procs' = procs /\ aria2_process' = aria2_process
       /\ NextPid(procs') /= NextPid(procs) => ~Reachable(procs, external)]_vars

NeverSpawned == \A p \in Pids : procs[p].st = "none"

\* A start_aria2 returned Ok with a daemon started elsewhere answering and
\* nothing ever spawned: it took the early return.
C5_Witness ==
    \E c \in Callers :
       /\ Returned(c, "start_aria2", Ok)
       /\ NeverSpawned
       /\ Answers(external)
       /\ aria2_process = NoChild

\* C6: a stop_daemon called with no handle held, by a component that never
\* started a daemon, returns Ok, keeps the handle absent and the limits, and
\* does not terminate the externally started daemon reachable at the call.
C6_StopNeverStartedIsNoOp ==
    [][\A c \in Callers : StopAria2(c) /\ NeverSpawned /\ Answers(external) =>
         /\ Returns(c, "stop_aria2", Ok)
         /\ aria2_process' = NoChild
         /\ limits' = limits
         /\ external' = external]_vars

\* A step of c that begins a stop_daemon.
StopBegins(c) == StopAria2(c) \/ SblStop(c)

\* A step of c that ends a stop_daemon.
StopEnds(c) == StopDaemonShutdown(c) \/ (StopBegins(c) /\ aria2_process = NoChild)

\* C7: stop_daemon returns Ok whatever the state, holds no handle afterwards,
\* leaves the limits alone; called again, with no handle held and nothing
\* answering, it returns Ok and changes nothing.
C7_StopAlwaysSucceeds ==
    [][\A c \in Callers :
         /\ StopBegins(c) =>
              /\ aria2_process' = NoChild
              /\ limits' = limits
         /\ StopEnds(c) =>
              /\ aria2_process' = NoChild
              /\ limits' = limits
              /\ \/ Returns(c, "stop_aria2", Ok)
                 \/ pc'[c] = "sbl_update" /\ last' = Nothing
         /\ StopBegins(c) /\ aria2_process = NoChild /\ ~Reachable(procs, external) =>
              /\ procs' = procs /\ external' = external]_vars

\* A stop_aria2 returned Ok after killing the tracked child, with nothing
\* answering the shutdown request.
C7_Witness ==
    \E c \in Callers :
       /\ Returned(c, "stop_aria2", Ok)
       /\ aria2_process = NoChild
       /\ procs[1].st = "dead"
       /\ ~Reachable(procs, external)

\* get_bandwidth_limit run on the store as it is, with nothing in between.
get_bandwidth_limit(store) ==
    LET s == get_settings(store) IN
    client_get_bandwidth_limit(client_set_bandwidth_limit(s[1], s[2]))

\* C8: set_bandwidth_limit(o, p) with the daemon not running spawns nothing,
\* leaves the handle alone, returns Ok, and a following get_bandwidth_limit
\* returns (o, p).
C8_SetLimitsWhileStopped ==
    [][\A c \in Callers :
         /\ (\E l \in LimitPairs : SblCheck(c, l)) =>
              procs' = procs /\ aria2_process' = aria2_process
         /\ SblUpdate(c) /\ ~was_running[c] =>
              /\ procs' = procs
              /\ aria2_process' = aria2_process
              /\ Returns(c, "set_bandwidth_limit", Ok)
              /\ get_bandwidth_limit(settings') = lims[c]
              /\ limits' = lims[c]]_vars

\* A set_bandwidth_limit(1, 2) returned Ok where no daemon ever ran.
C8_Witness ==
    \E c \in Callers :
       /\ Returned(c, "set_bandwidth_limit", Ok)
       /\ limits = <<1, 2>>
       /\ get_bandwidth_limit(settings) = <<1, 2>>
       /\ NeverSpawned
       /\ external = "none"

\* C9: is_aria2_running returns true exactly when the getVersion call is
\* answered, whatever the handle, and changes neither handle nor limits.
C9_IsRunningIsReachability ==
    [][\A c \in Callers : IsAria2Running(c) =>
         /\ Returns(c, "is_aria2_running", <<"true">>) <=> Reachable(procs, external)
         /\ Returns(c, "is_aria2_running", <<"false">>) <=> ~Reachable(procs, external)
         /\ aria2_process' = aria2_process
         /\ limits' = limits]_vars

\* is_aria2_running returned false while a live child is held.
C9_Witness ==
    \E c \in Callers :
       /\ Returned(c, "is_aria2_running", <<"false">>)
       /\ aria2_process /= NoChild
       /\ procs[aria2_process].st = "starting"

\* C10: when the readiness poll runs out, start_daemon returns the timeout
\* error with the process it spawned untouched and still tracked; a stop_daemon
\* that finds a handle kills exactly the tracked process and clears the handle.
C10_TimeoutLeavesChildTracked ==
    [][\A c \in Callers :
         /\ StartDaemonPoll(c) /\ ~Reachable(procs, external) =>
              /\ \/ Returns(c, "start_aria2", <<"StartupTimeout">>)
                 \/ Returns(c, "set_bandwidth_limit", <<"StartupTimeout">>)
              /\ procs' = procs
              /\ aria2_process' = aria2_process
              /\ aria2_process = NextPid(procs) - 1
         /\ StopBegins(c) /\ aria2_process /= NoChild =>
              /\ procs' = [procs EXCEPT ![aria2_process] = DeadProc]
              /\ aria2_process' = NoChild]_vars

\* A start_aria2 returned the timeout error and its child is alive and tracked.
C10_Witness ==
    \E c \in Callers :
       /\ Returned(c, "start_aria2", <<"StartupTimeout">>)
       /\ aria2_process /= NoChild
       /\ procs[aria2_process].st = "starting"

\* C11: the in-memory limits change only in the limit-setting step of a
\* set_bandwidth_limit command; the get_bandwidth_limit command leaves them
\* as they are and returns them, whatever the settings store holds.
C11_LimitsChangeOnlyBySetter ==
    [][/\ limits' /= limits => \E c \in Callers : SblUpdate(c)
       /\ \A c \in Callers : GblApply(c) =>
            /\ limits' = limits
            /\ Returns(c, "get_bandwidth_limit", limits)]_vars

\* The envelope member m of the response carries a value.
Carries(m) == m = "value"

\* C18: for a response that arrived as an envelope, call fails with the
\* daemon's message and code when the envelope carries an error (a result or
\* not), fails with the empty-response error when it carries neither, and
\* succeeds with the result when it carries a result and no error; it never
\* succeeds on an envelope that carries an error.
C18_CallMapsEnvelope ==
    call_result /= Pending /\ rpc_response.sent /\ rpc_response.well_formed =>
      LET r == rpc_response IN
      /\ Carries(r.error_member) =>
           call_result = [ok |-> FALSE,
                          value |-> <<"aria2 error", r.error.message, r.error.code>>]
      /\ ~Carries(r.error_member) /\ ~Carries(r.result_member) =>
           call_result = [ok |-> FALSE, value |-> <<"Empty response from aria2">>]
      /\ ~Carries(r.error_member) /\ Carries(r.result_member) =>
           call_result = [ok |-> TRUE, value |-> <<r.result>>]
      /\ call_result.ok => ~Carries(r.error_member)

\* call has failed on an envelope that carries a result and an error.
C18_Witness ==
    /\ Carries(rpc_response.result_member)
    /\ Carries(rpc_response.error_member)
    /\ call_result = [ok |-> FALSE,
                      value |-> <<"aria2 error", rpc_response.error.message,
                                  rpc_response.error.code>>]

\* C14: every translated record with total_size > 0 has a progress between
\* 0 and 100, whatever completedLength the daemon reported.
C14_ProgressWithinRange ==
    info.state = "Ok" /\ info.total_size > 0 =>
      /\ info.progress[2] > 0
      /\ 0 <= info.progress[1]
      /\ info.progress[1] <= 100 * info.progress[2]

\* C15: the progress is downloaded / total_size x 100 when total_size > 0,
\* and 0 when total_size is 0, whatever downloaded is.
C15_ProgressIsRatio ==
    info.state = "Ok" =>
      /\ info.progress[2] /= 0
      /\ info.total_size > 0 =>
           info.progress[1] * info.total_size = info.downloaded * 100 * info.progress[2]
      /\ info.total_size = 0 => info.progress[1] = 0

\* A record was translated whose total is 0 and whose downloaded count is not.
C15_Witness ==
    /\ info.state = "Ok"
    /\ info.total_size = 0
    /\ info.downloaded > 0
    /\ info.progress[1] = 0

\* The decimal value of a string of digits.
RECURSIVE Decimal(_)
Decimal(ds) ==
    IF ds = <<>> THEN 0
    ELSE Decimal(SubSeq(ds, 1, Len(ds) - 1)) * 10 + to_digit(ds[Len(ds)])

\* s without its leading "+", if it has one.
Unsigned(s) == IF s /= <<>> /\ s[1] = "+" THEN Tail(s) ELSE s

\* s is the text of an unsigned 64-bit integer.
Parsable(s) ==
    /\ Unsigned(s) /= <<>>
    /\ \A i \in 1..Len(Unsigned(s)) : Unsigned(s)[i] \in Digits
    /\ Decimal(Unsigned(s)) <= U64_MAX

\* The value a counter field stands for: 0 when missing or not parsable.
Expected(field) ==
    IF field /= None /\ Parsable(field[1]) THEN Decimal(Unsigned(field[1])) ELSE 0

\* C16: each of the three counters is the value of its own field when that is
\* the text of a u64, and 0 when it is missing or anything else; the
\* translation succeeds whenever get_status did, and fails, with the error of
\* get_status, only when get_status failed.
C16_CountersDefaultToZero ==
    info /= NoInfo =>
      /\ info.state = "Ok" <=> status.ok
      /\ status.ok =>
           /\ info.total_size = Expected(status.record.total_length)
           /\ info.downloaded = Expected(status.record.completed_length)
           /\ info.speed = Expected(status.record.download_speed)
      /\ ~status.ok => info.state = "Err" /\ info.error = status.error

\* A record was translated whose total is too large for a u64, whose completed
\* length is a number and whose speed is missing.
C16_Witness ==
    /\ info.state = "Ok"
    /\ status.record.total_length = Some(<<"3", "3">>)
    /\ status.record.completed_length = Some(<<"+", "3">>)
    /\ status.record.download_speed = None
    /\ info.total_size = 0 /\ info.downloaded = 3 /\ info.speed = 0

\* The segments of a path that are not empty.
Segments(path) == SelectSeq(split(path, <<>>), LAMBDA x : x /= <<>>)

\* The segments of a path that are neither empty nor ".".
NamedSegments(path) == SelectSeq(split(path, <<>>), LAMBDA x : x /= <<>> /\ x /= <<".">>)

Last(seq) == seq[Len(seq)]

NoFiles(files) == files = None \/ files[1] = <<>>

\* C17: a record without file entries gets the filename "unknown"; with a
\* first entry whose path has a segment, the filename is the last segment of
\* that path.
C17_FilenameIsFinalSegment ==
    info.state = "Ok" =>
      LET files == status.record.files IN
      /\ NoFiles(files) => info.filename = unknown
      /\ ~NoFiles(files) /\ Segments(files[1][1].path) /= <<>> =>
           info.filename = Last(Segments(files[1][1].path))

\* C17 as amended: a record without file entries gets the filename "unknown";
\* with entries, the first path alone decides: the filename is its last
\* segment that is neither empty nor ".", when there is one and it is not
\* "..", and the whole path otherwise.  The translation succeeds either way.
C17_FilenameOrWholePath ==
    info /= NoInfo /\ status.ok =>
      LET files == status.record.files IN
      /\ info.state = "Ok"
      /\ NoFiles(files) => info.filename = unknown
      /\ ~NoFiles(files) =>
           LET p == files[1][1].path
               named == NamedSegments(p)
           IN IF named /= <<>> /\ Last(named) /= <<".", ".">>
              THEN info.filename = Last(named)
              ELSE info.filename = p

\* A record with two file entries was translated whose first path ends in
\* "..": the filename is that whole path.
C17_Witness ==
    /\ info.state = "Ok"
    /\ status.record.files /= None
    /\ Len(status.record.files[1]) = 2
    /\ status.record.files[1][1].path = <<"/", ".", ".">>
    /\ status.record.files[1][2].path = <<"a">>
    /\ info.filename = <<"/", ".", ".">>

\* The gids of a list of entries, in its order.
GidsOf(all) == [i \in 1..Len(all) |-> all[i].gid]

\* The first n downloads of a queue.
FirstN(q, n) == [i \in 1..(IF Len(q) < n THEN Len(q) ELSE n) |-> q[i]]

\* The downloads of the daemon in active, waiting, stopped order, at most 100
\* of the waiting and of the stopped ones.
AllQueues ==
    queues.active \o FirstN(queues.waiting, 100) \o FirstN(queues.stopped, 100)

\* C12: with the daemon answering every call and its queues unchanged, the
\* list get_all_downloads returns has one entry per download of the active
\* queue, then of the waiting queue, then of the stopped queue, each queue in
\* its own order, and every entry carries the status of its queue.
C12_ListsQueuesInOrder ==
    \A c \in Callers : Returned(c, "get_all_downloads", Ok) =>
      /\ GidsOf(all_downloads) = AllQueues
      /\ \A i \in 1..Len(all_downloads) :
           all_downloads[i].status =
             IF i <= Len(queues.active) THEN "active"
             ELSE IF i <= Len(queues.active) + Len(queues.waiting) THEN "waiting"
             ELSE "complete"

\* get_all_downloads returned four entries for 2 active, 1 waiting and 1
\* stopped download.
C12_Witness ==
    /\ \E c \in Callers : Returned(c, "get_all_downloads", Ok)
    /\ Len(queues.active) = 2 /\ Len(queues.waiting) = 1 /\ Len(queues.stopped) = 1
    /\ Len(all_downloads) = 4

\* a is b with some of its elements left out.
RECURSIVE IsSubseq(_, _)
IsSubseq(a, b) ==
    IF a = <<>> THEN TRUE
    ELSE IF b = <<>> THEN FALSE
    ELSE IF Head(a) = Head(b) THEN IsSubseq(Tail(a), Tail(b))
    ELSE IsSubseq(a, Tail(b))

\* A step of c that fetches a queue.
FetchStep(c) == GetAllDownloads(c) \/ GadTellWaiting(c) \/ GadTellStopped(c)

\* The queue a fetch step of c asks for.
FetchedQueue(c) ==
    IF pc[c] = "idle" THEN queues.active
    ELSE IF pc[c] = "gad_active" THEN FirstN(queues.waiting, 100)
    ELSE FirstN(queues.stopped, 100)

\* C13: get_all_downloads returns Ok whatever fails.  A queue whose fetch
\* fails gives no item and leaves the list as it is, a fetch that succeeds
\* gives the queue; an item whose translation fails is skipped, one whose
\* translation succeeds is appended; the list returned is the downloads of
\* the daemon in order with the failed ones left out.
C13_ListNeverFails ==
    [][/\ \A c \in Callers :
            /\ FetchStep(c) =>
                 /\ pending' = IF Reachable(procs, external) THEN FetchedQueue(c) ELSE <<>>
                 /\ all_downloads' = IF pc[c] = "idle" THEN <<>> ELSE all_downloads
            /\ GadItem(c) =>
                 /\ pending' = Tail(pending)
                 /\ ~Reachable(procs, external) => all_downloads' = all_downloads
                 /\ Reachable(procs, external) =>
                      /\ Len(all_downloads') = Len(all_downloads) + 1
                      /\ GidsOf(all_downloads') = Append(GidsOf(all_downloads), Head(pending))
       /\ last'.cmd = "get_all_downloads" =>
            /\ last'.result = Ok
            /\ pending' = <<>>
            /\ IsSubseq(GidsOf(all_downloads'), AllQueues)]_vars

\* get_all_downloads returned exactly the waiting downloads of a daemon that
\* has active and stopped ones too.
C13_Witness ==
    /\ \E c \in Callers : Returned(c, "get_all_downloads", Ok)
    /\ queues.active /= <<>> /\ queues.waiting /= <<>> /\ queues.stopped /= <<>>
    /\ GidsOf(all_downloads) = queues.waiting

\* C19: while a caller is inside get_all_downloads, waiting for one of its
\* RPC calls, the read-only commands of another caller can take their step.
C19_ReadersNotSerialized ==
    \A c, d \in Callers :
      c /= d /\ pc[c] \in GadPhases /\ pc[d] = "idle" =>
        /\ ENABLED IsAria2Running(d)
        /\ ENABLED GetAllDownloads(d)
        /\ \A gid \in Gids : ENABLED GetDownloadStatus(d, gid)

\* C20: while a start_aria2 is between its spawn and its return no other
\* start_aria2 takes a step; its poll returns Ok once the process it spawned
\* listens; and a start_aria2 that comes while a spawned process listens
\* returns Ok and spawns nothing.
C20_NoDoubleLaunch ==
    [][\A c \in Callers :
         /\ pc[c] = "sd_poll" => \A d \in Callers \ {c} : ~StartAria2(d)
         /\ (/\ StartDaemonPoll(c)
             /\ pc[c] = "sd_poll"
             /\ procs[aria2_process].st = "listening")
              => Returns(c, "start_aria2", Ok) /\ procs' = procs
         /\ StartAria2(c) /\ (\E p \in Pids : procs[p].st = "listening")
              => Returns(c, "start_aria2", Ok) /\ procs' = procs]_vars

\* A start_aria2 returned Ok where the only process ever spawned listens and
\* is tracked, and no other daemon is on the machine.
C20_Witness ==
    /\ \E c \in Callers : Returned(c, "start_aria2", Ok)
    /\ NextPid(procs) = 2
    /\ aria2_process = 1
    /\ procs[1].st = "listening"
    /\ external = "none"

\* C21: a set_bandwidth_limit that found the daemon running never returns,
\* with success or with an error, while no daemon answers on the port.
C21_NeverLeftStopped ==
    [][\A c \in Callers :
         /\ was_running[c]
         /\ last'.caller = c
         /\ last'.cmd = "set_bandwidth_limit"
         => Reachable(procs', external')]_vars

\* The queue the entries pushed in a phase of get_all_downloads were listed from.
StatusesOf(phase) ==
    CASE phase = "gad_active" -> {"active"}
      [] phase = "gad_waiting" -> {"waiting", "paused"}
      [] OTHER -> {"complete", "error", "removed"}

\* C22: also with the daemon moving downloads between its queues during the
\* command, the list get_all_downloads returns holds no gid twice, and every
\* entry pushed carries a status of the queue it was listed from.
C22_NoDuplicateAcrossQueues ==
    [][\A c \in Callers :
         /\ Returns(c, "get_all_downloads", Ok) =>
              \A i, j \in 1..Len(all_downloads') :
                all_downloads'[i].gid = all_downloads'[j].gid => i = j
         /\ GadItem(c) /\ Len(all_downloads') > Len(all_downloads) =>
              all_downloads'[Len(all_downloads')].status \in StatusesOf(pc[c])]_vars

====
